---- MODULE Spec2Model ----
(***************************************************************************)
(* The per-container manager of cAdvisor (src/manager/container.go):       *)
(* construction (NewContainerData), the lifecycle calls Start and Stop,    *)
(* the read path GetInfo, and the housekeeping goroutine with its          *)
(* interval adaptation (nextHousekeeping); and the normalization of raw    *)
(* libcontainer stats (src/container/libcontainer/helpers.go).             *)
(*                                                                         *)
(* Durations are whole numbers of an abstract time unit.  The clock `now`  *)
(* is measured from the housekeeping loop's lastHousekeeping, which is     *)
(* therefore the origin of time (lastHousekeeping == 0): the assignment    *)
(* `lastHousekeeping = nextHousekeeping` of the loop moves the origin.     *)
(***************************************************************************)
EXTENDS Integers, Sequences, FiniteSets, TLC

(***************************************************************************)
(* Bounds of the model.                                                    *)
(***************************************************************************)
\* The baseline flag housekeeping_interval ranges over 1..MaxBaseInterval.
MaxBaseInterval == 2
\* The flag max_housekeeping_interval ranges up to MaxMaxInterval.
MaxMaxInterval == 4
\* The clock runs at most this far past the largest configured interval
\* before the loop catches up (how slow a tick may be).
MaxOverrun == 1
\* Concurrent callers of GetInfo.
NumGetInfoCallers == 2
\* Concurrent callers of Stop.
NumStopCallers == 2
\* Distinct usage values a stats sample may carry.
NumUsages == 2
\* Distinct wall-clock readings a stats sample may be stamped with.
NumStamps == 2
\* Distinct specs / sub-container lists the handler may report.
NumSpecs == 2
\* Width in bits of the unsigned counters (uint64 in the program).
WordBits == 3
\* Most cores a raw CPU snapshot lists.
MaxCpus == 2
\* Ticks counted after a collaborator began to fail persistently.
MaxFailedTicks == 2

(***************************************************************************)
(* Program constants.                                                      *)
(***************************************************************************)
\* make(chan bool, 1)
StopCapacity == 1
\* RecentStats(self.info.Name, 2)
RecentCount == 2

Callers == 1..NumGetInfoCallers
Stoppers == 1..NumStopCallers
Usages == 1..NumUsages
Stamps == 1..NumStamps

\* Errors a collaborator (handler factory, handler, storage driver) may report.
Errors == {"errA", "errB"}
NoError == "nil"
\* fmt.Errorf("nil storage driver")
NilDriverError == "nil storage driver"

\* The nil storage driver.
Nil == "nil"
\* The nil *info.ContainerSpec and the nil []info.ContainerReference; the
\* non-nil values the handler may report are 1..NumSpecs.
NilSpec == 0
SpecValues == 1..NumSpecs
SubcontainerValues == 1..NumSpecs

\* The references a resolved handler may report for the container.
Refs == { [Name |-> "/docker/a", Aliases |-> {"a"}],
          [Name |-> "/b", Aliases |-> {}] }

\* The handler field before a handler is resolved.
NilHandler == [Name |-> "", Aliases |-> {}]

\* The zero value of containerInfo (cont := &containerData{}).
ZeroInfo == [Name |-> "", Aliases |-> {}, Subcontainers |-> NilSpec, Spec |-> NilSpec]

\* newRet before NewContainerData is called.
NotCalled == [called |-> FALSE, driver |-> Nil, resolveErr |-> NoError,
              ref |-> NilHandler, refErr |-> NoError, err |-> NoError, calls |-> <<>>]

\* What a GetInfo caller holds before its call has returned.
NoReturn == [err |-> "pending", hasInfo |-> FALSE, info |-> ZeroInfo, torn |-> FALSE]

\* The stats a handler may return: a wall-clock stamp and the usage counters.
StatsValues == [Timestamp : Stamps, Usage : Usages]
\* The loop's local `stats` while it holds none.
NoStats == [Timestamp |-> 0, Usage |-> 0]

\* The collaborator calls of a tick that may fail persistently.
FailingCalls == {"GetStats", "AddStats"}
\* All collaborators work.
NotFailing == [call |-> "none", ticks |-> 0]

\* The longest time the clock may run ahead of lastHousekeeping.
MaxLag == MaxMaxInterval + MaxOverrun

\* Time origin: every time of the loop is measured from lastHousekeeping.
lastHousekeeping == 0

(***************************************************************************)
(* The raw snapshot of libcontainer and the normalized info.ContainerStats *)
(* (src/container/libcontainer/helpers.go).                                *)
(***************************************************************************)
\* Unsigned counters: arithmetic is modulo Word.
Word == 2^WordBits
Uint64 == 0..(Word - 1)

\* s.CpuStats.CpuUsage.PercpuUsage: one cumulative counter per core.
PercpuUsages == UNION {[1..n -> Uint64] : n \in 0..MaxCpus}
CpuStatsValues == [PercpuUsage : PercpuUsages,
                   UsageInUsermode : {0, Word - 1},
                   UsageInKernelmode : {0, 1}]
\* The zero value of CpuStats: no per-core list, no counters.
ZeroCpuStats == [PercpuUsage |-> <<>>, UsageInUsermode |-> 0, UsageInKernelmode |-> 0]
\* A CPU section with counters, used where the memory section varies.
SomeCpuStats == [PercpuUsage |-> <<1, 2>>, UsageInUsermode |-> 1, UsageInKernelmode |-> 1]

\* s.MemoryStats.Stats: a map from counter name to value; a key may be absent.
WorkingSetKeys == {"total_inactive_anon", "total_active_file"}
FaultKeys == {"pgfault", "pgmajfault"}
StatsMaps ==
  UNION {[K -> Uint64] : K \in SUBSET WorkingSetKeys}
    \cup UNION {[K -> {Word - 1}] : K \in SUBSET FaultKeys}
    \cup {[k \in WorkingSetKeys \cup FaultKeys |-> 1]}
MemoryStatsValues == [Usage : Uint64, Stats : StatsMaps]
\* The zero value of MemoryStats: no usage, a nil map.
ZeroMemoryStats == [Usage |-> 0, Stats |-> <<>>]
\* A memory section with counters, used where the CPU section varies.
SomeMemoryStats == [Usage |-> Word - 1,
                    Stats |-> [k \in WorkingSetKeys \cup FaultKeys |-> 1]]

\* libcontainerStats.NetworkStats: nil (HasNetworkStats = FALSE) or counters.
ZeroNetworkStats == [RxBytes |-> 0, TxBytes |-> 0]
NetworkStatsValues == {[RxBytes |-> 1, TxBytes |-> Word - 1]}

\* *cgroups.Stats: the CPU and the memory section, each possibly empty.
CgroupStatsValues ==
  [CpuStats : CpuStatsValues, MemoryStats : {ZeroMemoryStats, SomeMemoryStats}]
    \cup [CpuStats : {ZeroCpuStats, SomeCpuStats}, MemoryStats : MemoryStatsValues]
ZeroCgroupStats == [CpuStats |-> ZeroCpuStats, MemoryStats |-> ZeroMemoryStats]

\* *libcontainer.ContainerStats: CgroupStats and NetworkStats are pointers,
\* nil when the Has... field is FALSE.
RawStats ==
  [HasCgroupStats : {TRUE}, CgroupStats : CgroupStatsValues,
   HasNetworkStats : {FALSE}, NetworkStats : {ZeroNetworkStats}]
    \cup [HasCgroupStats : {TRUE}, CgroupStats : CgroupStatsValues,
          HasNetworkStats : {TRUE}, NetworkStats : NetworkStatsValues]
    \cup [HasCgroupStats : {FALSE}, CgroupStats : {ZeroCgroupStats},
          HasNetworkStats : {FALSE}, NetworkStats : {ZeroNetworkStats}]
    \cup [HasCgroupStats : {FALSE}, CgroupStats : {ZeroCgroupStats},
          HasNetworkStats : {TRUE}, NetworkStats : NetworkStatsValues]
\* No snapshot at hand (outside the normalizer's runs).
NoRawStats == [HasCgroupStats |-> FALSE, CgroupStats |-> ZeroCgroupStats,
               HasNetworkStats |-> FALSE, NetworkStats |-> ZeroNetworkStats]

\* new(info.ContainerStats): every field at its zero value.
ZeroCpuUsage == [User |-> 0, System |-> 0, PerCpu |-> <<>>, Total |-> 0]
ZeroMemoryData == [Pgfault |-> 0, Pgmajfault |-> 0]
ZeroMemory == [Usage |-> 0, ContainerData |-> ZeroMemoryData,
               HierarchicalData |-> ZeroMemoryData, WorkingSet |-> 0]
ZeroContainerStats == [Timestamp |-> 0, Cpu |-> [Usage |-> ZeroCpuUsage],
                       Memory |-> ZeroMemory, Network |-> ZeroNetworkStats]
\* containerStats before GetStats / GetStatsCgroupOnly has returned.
NotReturned == [returned |-> FALSE, via |-> "none", err |-> NoError,
                hasStats |-> FALSE, stats |-> ZeroContainerStats]

VARIABLES
  \* flags (container.go:32-34)
  HousekeepingInterval, maxHousekeepingInterval, allowDynamicHousekeeping,
  \* the last NewContainerData call: its inputs (the driver passed, what
  \* the collaborators answered), the error returned, the collaborator
  \* calls it made
  newRet,
  \* the manager: "nil" before a successful construction, "ok" after
  cont,
  \* containerData fields
  handler, info, storageDriver, lock, housekeepingInterval, stop,
  \* the storage driver's stored samples of this container (most recent last)
  storage,
  \* Start: number of Start calls, number of housekeeping goroutines launched
  startCalls, goroutines,
  \* housekeeping goroutine: position, clock, locals
  hpc, now, stats, nextHousekeeping,
  \* record of the current loop iteration: the collaborator methods it has
  \* called, the outcome of the tick, what nextHousekeeping saw from
  \* RecentStats, and the interval before nextHousekeeping ran
  called, tick, seen, prevInterval,
  \* GetInfo callers: position, fetched value, the handler calls of the
  \* current (or last) GetInfo with their errors, the last return; and
  \* which caller's write info.Spec / info.Subcontainers holds, with the
  \* spec that the last write of info.Spec replaced
  gpc, fetched, calls, ret, writer,
  \* Stop callers: position
  spc,
  \* a collaborator of the tick that fails persistently: which call fails
  \* on every tick ("none" while all collaborators work) and how many ticks
  \* have ended since it began to fail (counted up to MaxFailedTicks)
  failing,
  \* GetStats / GetStatsCgroupOnly (helpers.go): the raw snapshot that
  \* libcontainer reports, and what the call returned
  libcontainerStats, containerStats,
  \* the accesses to c.info (reads and writes of its fields) that the
  \* housekeeping goroutine or a GetInfo caller made without holding c.lock
  unlocked

flagVars == <<HousekeepingInterval, maxHousekeepingInterval, allowDynamicHousekeeping>>
ctorVars == <<newRet, cont, handler, storageDriver>>
iterVars == <<called, tick, seen, prevInterval>>
loopVars == <<hpc, now, stats, nextHousekeeping, iterVars>>
startVars == <<startCalls, goroutines>>
infoVars == <<gpc, fetched, calls, ret, writer>>
normVars == <<libcontainerStats, containerStats>>
vars == <<flagVars, ctorVars, info, lock, housekeepingInterval, stop, storage,
          startVars, loopVars, infoVars, spc, failing, normVars, unlocked>>

(***************************************************************************)
(* Initial state: the flags are parsed, no manager is constructed yet.     *)
(* The flags range over the configurations with 0 < baseline <= maximum.   *)
(***************************************************************************)
InitManager ==
  /\ newRet = NotCalled
  /\ cont = "nil"
  /\ handler = NilHandler
  /\ info = ZeroInfo
  /\ storageDriver = Nil
  /\ lock = 0
  /\ housekeepingInterval = 0
  /\ stop = 0
  /\ storage = <<>>
  /\ startCalls = 0
  /\ goroutines = 0
  /\ hpc = "notStarted"
  /\ now = 0
  /\ stats = NoStats
  /\ nextHousekeeping = 0
  /\ called = {}
  /\ tick = "none"
  /\ seen = "none"
  /\ prevInterval = 0
  /\ gpc = [c \in Callers |-> "idle"]
  /\ fetched = [c \in Callers |-> NilSpec]
  /\ calls = [c \in Callers |-> <<>>]
  /\ ret = [c \in Callers |-> NoReturn]
  /\ writer = [Spec |-> 0, Subcontainers |-> 0, oldSpec |-> NilSpec]
  /\ spc = [s \in Stoppers |-> "idle"]
  /\ failing = NotFailing
  /\ unlocked = {}

Init ==
  /\ HousekeepingInterval \in 1..MaxBaseInterval
  /\ maxHousekeepingInterval \in HousekeepingInterval..MaxMaxInterval
  /\ allowDynamicHousekeeping \in BOOLEAN
  /\ InitManager
  /\ libcontainerStats = NoRawStats
  /\ containerStats = NotReturned

\* The normalizer's runs: no manager is involved, libcontainer reports any
\* raw snapshot.
InitStats ==
  /\ HousekeepingInterval = 1
  /\ maxHousekeepingInterval = MaxMaxInterval
  /\ allowDynamicHousekeeping = TRUE
  /\ InitManager
  /\ libcontainerStats \in RawStats
  /\ containerStats = NotReturned

(***************************************************************************)
(* NewContainerData(containerName, driver)                                 *)
(*   driver     : "nil" or "driver"                                        *)
(*   resolveErr : what container.NewContainerHandler reports               *)
(*   ref, refErr: what handler.ContainerReference() returns                *)
(***************************************************************************)
\* Variant: the nil-driver check made only after the handler is resolved.
NewContainerDataResultLateCheck(driver, resolveErr, ref, refErr) ==
  IF resolveErr # NoError
  THEN [err |-> resolveErr, calls |-> <<"NewContainerHandler">>]
  ELSE IF driver = Nil
  THEN [err |-> NilDriverError, calls |-> <<"NewContainerHandler">>]
  ELSE IF refErr # NoError
  THEN [err |-> refErr, calls |-> <<"NewContainerHandler", "ContainerReference">>]
  ELSE [err |-> NoError, calls |-> <<"NewContainerHandler", "ContainerReference">>,
        cont |-> [handler |-> ref,
                  info |-> [ZeroInfo EXCEPT !.Name = ref.Name, !.Aliases = ref.Aliases],
                  storageDriver |-> driver,
                  housekeepingInterval |-> HousekeepingInterval,
                  stop |-> 0]]

NewContainerDataResult(driver, resolveErr, ref, refErr) ==
  IF driver = Nil
  THEN [err |-> NilDriverError, calls |-> <<>>]
  ELSE IF resolveErr # NoError
  THEN [err |-> resolveErr, calls |-> <<"NewContainerHandler">>]
  ELSE IF refErr # NoError
  THEN [err |-> refErr, calls |-> <<"NewContainerHandler", "ContainerReference">>]
  ELSE [err |-> NoError, calls |-> <<"NewContainerHandler", "ContainerReference">>,
        cont |-> [handler |-> ref,
                  info |-> [ZeroInfo EXCEPT !.Name = ref.Name, !.Aliases = ref.Aliases],
                  storageDriver |-> driver,
                  housekeepingInterval |-> HousekeepingInterval,
                  stop |-> 0]]

NewContainerData ==
  /\ cont = "nil"
  /\ \E driver \in {Nil, "driver"}, resolveErr \in Errors \cup {NoError},
        ref \in Refs, refErr \in Errors \cup {NoError} :
       LET r == NewContainerDataResult(driver, resolveErr, ref, refErr) IN
       /\ newRet' = [called |-> TRUE, driver |-> driver, resolveErr |-> resolveErr,
                     ref |-> IF driver # Nil /\ resolveErr = NoError THEN ref ELSE NilHandler,
                     refErr |-> IF driver # Nil /\ resolveErr = NoError THEN refErr ELSE NoError,
                     err |-> r.err, calls |-> r.calls]
       /\ IF r.err # NoError
          THEN UNCHANGED <<cont, handler, info, storageDriver, housekeepingInterval, stop>>
          ELSE /\ cont' = "ok"
               /\ handler' = r.cont.handler
               /\ info' = r.cont.info
               /\ storageDriver' = r.cont.storageDriver
               /\ housekeepingInterval' = r.cont.housekeepingInterval
               /\ stop' = r.cont.stop
  /\ UNCHANGED <<flagVars, normVars, unlocked, failing, lock, storage, startVars, loopVars, infoVars, spc>>

(***************************************************************************)
(* GetInfo, one step per collaborator call and per lock operation.         *)
(* Positions of a caller c:                                                *)
(*   idle -> specLock -> specWrite -> listContainers -> subLock ->         *)
(*   subWrite -> copyLock -> copy -> idle                                  *)
(***************************************************************************)
\* Variant: the failure is swallowed and the stored info returned.
ErrorReturnStale(err) == [err |-> NoError, hasInfo |-> TRUE, info |-> info, torn |-> FALSE]

\* return nil, err
ErrorReturn(err) == [err |-> err, hasInfo |-> FALSE, info |-> ZeroInfo, torn |-> FALSE]

Return(c, r) ==
  /\ ret' = [ret EXCEPT ![c] = r]
  /\ gpc' = [gpc EXCEPT ![c] = "idle"]
  /\ fetched' = [fetched EXCEPT ![c] = NilSpec]

\* c.lock.Lock(): blocks while another goroutine holds the lock.
Lock(c) ==
  /\ lock = 0
  /\ lock' = c

\* c.lock.Unlock()
Unlock(c) ==
  /\ lock = c
  /\ lock' = 0

\* The housekeeping goroutine, as a possible holder of c.lock (the GetInfo
\* callers are 1..NumGetInfoCallers).
Housekeeper == NumGetInfoCallers + 1

\* An access to c.info by `who`: it is recorded when who does not hold
\* c.lock.
InfoAccess(who, op, field) ==
  IF lock = who
  THEN unlocked
  ELSE unlocked \cup {[by |-> who, op |-> op, field |-> field]}

\* GetInfo entry and updateSpec: spec, err := c.handler.GetSpec()
GetSpec(c) ==
  /\ cont = "ok"
  /\ gpc[c] = "idle"
  /\ \E err \in Errors \cup {NoError}, spec \in SpecValues :
       /\ calls' = [calls EXCEPT ![c] = <<[method |-> "GetSpec", err |-> err]>>]
       /\ IF err # NoError
          THEN Return(c, ErrorReturn(err))
          ELSE /\ gpc' = [gpc EXCEPT ![c] = "specLock"]
               /\ fetched' = [fetched EXCEPT ![c] = spec]
               /\ ret' = [ret EXCEPT ![c] = NoReturn]
  /\ UNCHANGED <<flagVars, normVars, unlocked, failing, ctorVars, info, lock, housekeepingInterval, stop,
                 storage, startVars, loopVars, writer, spc>>

\* updateSpec: c.lock.Lock()
UpdateSpecLock(c) ==
  /\ gpc[c] = "specLock"
  /\ Lock(c)
  /\ gpc' = [gpc EXCEPT ![c] = "specWrite"]
  /\ UNCHANGED <<flagVars, normVars, unlocked, failing, ctorVars, info, housekeepingInterval, stop, storage,
                 startVars, loopVars, fetched, calls, ret, writer, spc>>

\* Variant: refreshing the spec also lowers the housekeeping interval to the
\* baseline.
UpdateSpecWriteResetsInterval(c) ==
  /\ gpc[c] = "specWrite"
  /\ info' = [info EXCEPT !.Spec = fetched[c]]
  /\ writer' = [writer EXCEPT !.Spec = c, !.oldSpec = info.Spec]
  /\ Unlock(c)
  /\ gpc' = [gpc EXCEPT ![c] = "listContainers"]
  /\ fetched' = [fetched EXCEPT ![c] = NilSpec]
  /\ housekeepingInterval' = HousekeepingInterval
  /\ unlocked' = InfoAccess(c, "write", "Spec")
  /\ UNCHANGED <<flagVars, normVars, failing, ctorVars, stop, storage,
                 startVars, loopVars, calls, ret, spc>>

\* updateSpec: c.info.Spec = spec; deferred c.lock.Unlock(); return nil
UpdateSpecWrite(c) ==
  /\ gpc[c] = "specWrite"
  /\ info' = [info EXCEPT !.Spec = fetched[c]]
  /\ writer' = [writer EXCEPT !.Spec = c, !.oldSpec = info.Spec]
  /\ Unlock(c)
  /\ gpc' = [gpc EXCEPT ![c] = "listContainers"]
  /\ fetched' = [fetched EXCEPT ![c] = NilSpec]
  /\ unlocked' = InfoAccess(c, "write", "Spec")
  /\ UNCHANGED <<flagVars, normVars, failing, ctorVars, housekeepingInterval, stop, storage,
                 startVars, loopVars, calls, ret, spc>>

\* Variant: the fetched list is stored before the error is looked at, so a
\* failed fetch clears Subcontainers.
ListContainersStoresOnError(c) ==
  /\ gpc[c] = "listContainers"
  /\ \E err \in Errors \cup {NoError}, subcontainers \in SubcontainerValues :
       /\ calls' = [calls EXCEPT
                      ![c] = Append(@, [method |-> "ListContainers", err |-> err])]
       /\ IF err # NoError
          THEN /\ Return(c, ErrorReturn(err))
               /\ info' = [info EXCEPT !.Subcontainers = NilSpec]
          ELSE /\ gpc' = [gpc EXCEPT ![c] = "subLock"]
               /\ fetched' = [fetched EXCEPT ![c] = subcontainers]
               /\ UNCHANGED <<ret, info>>
  /\ UNCHANGED <<flagVars, normVars, unlocked, failing, ctorVars, lock,
                 housekeepingInterval, stop, storage, startVars, loopVars,
                 writer, spc>>

\* updateSubcontainers: subcontainers, err := c.handler.ListContainers(LIST_SELF)
ListContainers(c) ==
  /\ gpc[c] = "listContainers"
  /\ \E err \in Errors \cup {NoError}, subcontainers \in SubcontainerValues :
       /\ calls' = [calls EXCEPT
                      ![c] = Append(@, [method |-> "ListContainers", err |-> err])]
       /\ IF err # NoError
          THEN Return(c, ErrorReturn(err))
          ELSE /\ gpc' = [gpc EXCEPT ![c] = "subLock"]
               /\ fetched' = [fetched EXCEPT ![c] = subcontainers]
               /\ UNCHANGED ret
  /\ UNCHANGED <<flagVars, normVars, unlocked, failing, ctorVars, info, lock, housekeepingInterval, stop,
                 storage, startVars, loopVars, writer, spc>>

\* updateSubcontainers: c.lock.Lock()
UpdateSubcontainersLock(c) ==
  /\ gpc[c] = "subLock"
  /\ Lock(c)
  /\ gpc' = [gpc EXCEPT ![c] = "subWrite"]
  /\ UNCHANGED <<flagVars, normVars, unlocked, failing, ctorVars, info, housekeepingInterval, stop, storage,
                 startVars, loopVars, fetched, calls, ret, writer, spc>>

\* updateSubcontainers: c.info.Subcontainers = subcontainers; deferred Unlock
UpdateSubcontainersWrite(c) ==
  /\ gpc[c] = "subWrite"
  /\ info' = [info EXCEPT !.Subcontainers = fetched[c]]
  /\ writer' = [writer EXCEPT !.Subcontainers = c]
  /\ Unlock(c)
  /\ gpc' = [gpc EXCEPT ![c] = "copyLock"]
  /\ fetched' = [fetched EXCEPT ![c] = NilSpec]
  /\ unlocked' = InfoAccess(c, "write", "Subcontainers")
  /\ UNCHANGED <<flagVars, normVars, failing, ctorVars, housekeepingInterval, stop, storage,
                 startVars, loopVars, calls, ret, spc>>

\* GetInfo: c.lock.Lock()
GetInfoLock(c) ==
  /\ gpc[c] = "copyLock"
  /\ Lock(c)
  /\ gpc' = [gpc EXCEPT ![c] = "copy"]
  /\ UNCHANGED <<flagVars, normVars, unlocked, failing, ctorVars, info, housekeepingInterval, stop, storage,
                 startVars, loopVars, fetched, calls, ret, writer, spc>>

\* The refresh of another caller a is half applied: a has replaced info.Spec
\* by a different spec in its running GetInfo, that write is the one
\* info.Spec holds, and a has fetched a different sub-container list that it
\* has not yet written to info.Subcontainers.
MidRefresh(a) ==
  /\ gpc[a] \in {"subLock", "subWrite"}
  /\ writer.Spec = a
  /\ info.Spec # writer.oldSpec
  /\ fetched[a] # info.Subcontainers

\* GetInfo: ret := c.info; deferred c.lock.Unlock(); return &ret, nil
GetInfoCopy(c) ==
  /\ gpc[c] = "copy"
  /\ Unlock(c)
  /\ Return(c, [err |-> NoError, hasInfo |-> TRUE, info |-> info,
                torn |-> \E a \in Callers \ {c} : MidRefresh(a)])
  /\ unlocked' = InfoAccess(c, "read", "info")
  /\ UNCHANGED <<flagVars, normVars, failing, ctorVars, info, housekeepingInterval, stop, storage,
                 startVars, loopVars, calls, writer, spc>>

GetInfo(c) ==
  \/ GetSpec(c)
  \/ UpdateSpecLock(c)
  \/ UpdateSpecWrite(c)
  \/ ListContainers(c)
  \/ UpdateSubcontainersLock(c)
  \/ UpdateSubcontainersWrite(c)
  \/ GetInfoLock(c)
  \/ GetInfoCopy(c)

(***************************************************************************)
(* Start and Stop.                                                         *)
(***************************************************************************)
\* Variant: Start calls nothing (the go statement is missing).
StartWithoutGo ==
  /\ cont = "ok"
  /\ startCalls = 0
  /\ startCalls' = startCalls + 1
  /\ UNCHANGED <<flagVars, normVars, unlocked, failing, ctorVars, info, lock, housekeepingInterval, stop,
                 storage, goroutines, loopVars, infoVars, spc>>

\* go c.housekeeping(); return nil.  The caller starts a manager once (a
\* second Start is outside the manager's contract), hence startCalls = 0.
Start ==
  /\ cont = "ok"
  /\ startCalls = 0
  /\ startCalls' = startCalls + 1
  /\ goroutines' = goroutines + 1
  /\ hpc' = "begin"
  /\ UNCHANGED <<flagVars, normVars, unlocked, failing, ctorVars, info, lock, housekeepingInterval, stop,
                 storage, now, stats, nextHousekeeping, iterVars, infoVars, spc>>

\* Variant: a stop channel of two slots.
CanSendTwoSlots == stop < StopCapacity + 1

\* Whether a send on c.stop can proceed: the buffer has a free slot.
CanSend == stop < StopCapacity

\* Variant: the send waits for a running housekeeping loop to receive it.
StopNeedsRunningLoop(s) ==
  /\ cont = "ok"
  /\ spc[s] = "idle"
  /\ IF CanSend /\ hpc \notin {"notStarted", "exited"}
     THEN /\ stop' = stop + 1
          /\ UNCHANGED spc
     ELSE /\ spc' = [spc EXCEPT ![s] = "blocked"]
          /\ UNCHANGED stop
  /\ UNCHANGED <<flagVars, normVars, unlocked, failing, ctorVars, info, lock,
                 housekeepingInterval, storage, startVars, loopVars, infoVars>>

\* c.stop <- true; return nil.  With the buffer full the caller blocks in
\* the send ("blocked") until StopUnblock.
Stop(s) ==
  /\ cont = "ok"
  /\ spc[s] = "idle"
  /\ IF CanSend
     THEN /\ stop' = stop + 1
          /\ UNCHANGED spc
     ELSE /\ spc' = [spc EXCEPT ![s] = "blocked"]
          /\ UNCHANGED stop
  /\ UNCHANGED <<flagVars, normVars, unlocked, failing, ctorVars, info, lock, housekeepingInterval, storage,
                 startVars, loopVars, infoVars>>

\* A blocked send completes once the buffer has a free slot; Stop returns.
StopUnblock(s) ==
  /\ spc[s] = "blocked"
  /\ CanSend
  /\ stop' = stop + 1
  /\ spc' = [spc EXCEPT ![s] = "idle"]
  /\ UNCHANGED <<flagVars, normVars, unlocked, failing, ctorVars, info, lock, housekeepingInterval, storage,
                 startVars, loopVars, infoVars>>

(***************************************************************************)
(* The storage driver and the stats comparison.                            *)
(***************************************************************************)
\* The n most recent of the samples q.
LastN(q, n) ==
  IF Len(q) <= n THEN q ELSE SubSeq(q, Len(q) - n + 1, Len(q))

\* AddStats(ref, stats): the driver stores the sample as the most recent one.
\* Only the RecentCount most recent samples are ever read back.
AddStats(q, sample) == LastN(Append(q, sample), RecentCount)

\* What RecentStats(name, n) may return: an error, or the (at most n) most
\* recent stored samples.
RecentStats(n) ==
  {[err |-> e, stats |-> <<>>] : e \in Errors}
    \cup {[err |-> NoError, stats |-> LastN(storage, n)]}

\* a.StatsEq(&b): same counters, the timestamp is not compared.
StatsEq(a, b) == a.Usage = b.Usage

(***************************************************************************)
(* nextHousekeeping                                                        *)
(***************************************************************************)
\* Variant: the doubled interval is not clamped to the maximum.
AdaptedIntervalNoClamp(cur, recent) ==
  IF recent.err # NoError
  THEN cur
  ELSE IF Len(recent.stats) = 2
  THEN IF StatsEq(recent.stats[1], recent.stats[2]) /\ cur < maxHousekeepingInterval
       THEN cur * 2
       ELSE IF cur # HousekeepingInterval
            THEN HousekeepingInterval
            ELSE cur
  ELSE cur

\* Variant: the interval decays by halving instead of snapping to the baseline.
AdaptedIntervalHalving(cur, recent) ==
  IF recent.err # NoError
  THEN cur
  ELSE IF Len(recent.stats) = 2
  THEN IF StatsEq(recent.stats[1], recent.stats[2]) /\ cur < maxHousekeepingInterval
       THEN IF cur * 2 > maxHousekeepingInterval
            THEN maxHousekeepingInterval
            ELSE cur * 2
       ELSE IF cur # HousekeepingInterval
            THEN cur \div 2
            ELSE cur
  ELSE cur

\* Variant: a failed or short lookup lowers the interval to the baseline.
AdaptedIntervalResetOnFailure(cur, recent) ==
  IF recent.err # NoError
  THEN HousekeepingInterval
  ELSE IF Len(recent.stats) = 2
  THEN IF StatsEq(recent.stats[1], recent.stats[2]) /\ cur < maxHousekeepingInterval
       THEN IF cur * 2 > maxHousekeepingInterval
            THEN maxHousekeepingInterval
            ELSE cur * 2
       ELSE IF cur # HousekeepingInterval
            THEN HousekeepingInterval
            ELSE cur
  ELSE HousekeepingInterval

\* Variant: the interval grows by a factor of three.
AdaptedIntervalTripling(cur, recent) ==
  IF recent.err # NoError
  THEN cur
  ELSE IF Len(recent.stats) = 2
  THEN IF StatsEq(recent.stats[1], recent.stats[2]) /\ cur < maxHousekeepingInterval
       THEN IF cur * 3 > maxHousekeepingInterval
            THEN maxHousekeepingInterval
            ELSE cur * 3
       ELSE IF cur # HousekeepingInterval
            THEN HousekeepingInterval
            ELSE cur
  ELSE cur

\* The interval nextHousekeeping leaves in self.housekeepingInterval, given
\* the current one and what RecentStats returned (lines 112-131).
AdaptedInterval(cur, recent) ==
  IF recent.err # NoError
  THEN cur
  ELSE IF Len(recent.stats) = 2
  THEN IF StatsEq(recent.stats[1], recent.stats[2]) /\ cur < maxHousekeepingInterval
       THEN IF cur * 2 > maxHousekeepingInterval
            THEN maxHousekeepingInterval
            ELSE cur * 2
       ELSE IF cur # HousekeepingInterval
            THEN HousekeepingInterval
            ELSE cur
  ELSE cur

\* Variant: the wake time counted from the clock, time.Now().Add(interval).
WakeTimeFromNow(last, interval) == now + interval

\* return lastHousekeeping.Add(self.housekeepingInterval)
WakeTime(last, interval) == last + interval

\* What the computation saw, for the record of the iteration.
Seen(recent) ==
  IF recent.err # NoError THEN "error"
  ELSE IF Len(recent.stats) # 2 THEN "short"
  ELSE IF StatsEq(recent.stats[1], recent.stats[2]) THEN "equal"
  ELSE "changed"

(***************************************************************************)
(* The housekeeping goroutine.  Positions:                                 *)
(*   notStarted -> begin -> select -> getStats -> containerReference ->    *)
(*   addStats -> nextHousekeeping -> schedule -> (sleeping ->) select ...  *)
(*   select -> exited                                                      *)
(***************************************************************************)
Running == hpc \notin {"notStarted", "exited"}

\* glog.Infof("Start housekeeping ...", c.info.Name)
\* lastHousekeeping := time.Now()
HousekeepingBegin ==
  /\ hpc = "begin"
  /\ now' = lastHousekeeping
  /\ hpc' = "select"
  /\ unlocked' = InfoAccess(Housekeeper, "read", "Name")
  /\ UNCHANGED <<flagVars, normVars, failing, ctorVars, info, lock, housekeepingInterval, stop,
                 storage, startVars, stats, nextHousekeeping, iterVars, infoVars, spc>>

\* Variant: the select never takes the stop case.
SelectIgnoringStop ==
  /\ hpc = "select"
  /\ hpc' = "getStats"
  /\ UNCHANGED <<flagVars, normVars, unlocked, failing, ctorVars, info, lock, housekeepingInterval, stop,
                 storage, startVars, now, stats, nextHousekeeping, iterVars,
                 infoVars, spc>>

\* Variant: the select may take the default case while a notification waits.
SelectMayMissStop ==
  /\ hpc = "select"
  /\ \/ /\ stop > 0
        /\ stop' = stop - 1
        /\ hpc' = "exited"
        /\ now' = 0
     \/ /\ hpc' = "getStats"
        /\ UNCHANGED <<stop, now>>
  /\ UNCHANGED <<flagVars, normVars, unlocked, failing, ctorVars, info, lock, housekeepingInterval,
                 storage, startVars, stats, nextHousekeeping, iterVars, infoVars, spc>>

\* select { case <-c.stop: return; default: c.housekeepingTick() ... }
Select ==
  /\ hpc = "select"
  /\ IF stop > 0
     THEN /\ stop' = stop - 1
          /\ hpc' = "exited"
          /\ now' = 0
     ELSE /\ hpc' = "getStats"
          /\ UNCHANGED <<stop, now>>
  /\ UNCHANGED <<flagVars, normVars, unlocked, failing, ctorVars, info, lock, housekeepingInterval, storage,
                 startVars, stats, nextHousekeeping, iterVars, infoVars, spc>>

\* The tick is over: housekeepingTick logs a failure, with c.info.Name, and
\* returns.
TickDone(outcome) ==
  /\ tick' = outcome
  /\ stats' = NoStats
  /\ hpc' = "nextHousekeeping"
  /\ unlocked' = IF outcome \in {"GetStats failed", "ContainerReference failed",
                                 "AddStats failed"}
                 THEN InfoAccess(Housekeeper, "read", "Name")
                 ELSE unlocked
  /\ failing' = IF failing.call # "none" /\ failing.ticks < MaxFailedTicks
                THEN [failing EXCEPT !.ticks = @ + 1]
                ELSE failing

\* Variant: a failed GetStats ends the goroutine.
GetStatsFatal ==
  /\ hpc = "getStats"
  /\ called' = called \cup {"GetStats"}
  /\ \/ /\ \E err \in Errors : tick' = "GetStats failed"
        /\ hpc' = "exited"
        /\ UNCHANGED <<stats, failing, unlocked>>
     \/ /\ failing.call # "GetStats"
        /\ TickDone("no stats")
     \/ /\ failing.call # "GetStats"
        /\ \E st \in StatsValues : stats' = st
        /\ hpc' = "containerReference"
        /\ UNCHANGED <<tick, failing, unlocked>>
  /\ UNCHANGED <<flagVars, normVars, ctorVars, info, lock, housekeepingInterval, stop,
                 storage, startVars, now, nextHousekeeping, seen, prevInterval,
                 infoVars, spc>>

\* updateStats: stats, err := c.handler.GetStats()
GetStats ==
  /\ hpc = "getStats"
  /\ called' = called \cup {"GetStats"}
  /\ \/ \E err \in Errors : TickDone("GetStats failed")
     \/ /\ failing.call # "GetStats"
        /\ TickDone("no stats")
     \/ /\ failing.call # "GetStats"
        /\ \E st \in StatsValues : stats' = st
        /\ hpc' = "containerReference"
        /\ UNCHANGED <<tick, failing, unlocked>>
  /\ UNCHANGED <<flagVars, normVars, ctorVars, info, lock, housekeepingInterval, stop,
                 storage, startVars, now, nextHousekeeping, seen, prevInterval,
                 infoVars, spc>>

\* updateStats: ref, err := c.handler.ContainerReference()
ContainerReference ==
  /\ hpc = "containerReference"
  /\ called' = called \cup {"ContainerReference"}
  /\ \/ \E err \in Errors : TickDone("ContainerReference failed")
     \/ /\ hpc' = "addStats"
        /\ UNCHANGED <<stats, tick, failing, unlocked>>
  /\ UNCHANGED <<flagVars, normVars, ctorVars, info, lock, housekeepingInterval, stop,
                 storage, startVars, now, nextHousekeeping, seen, prevInterval,
                 infoVars, spc>>

\* Variant: the sample is handed to the driver asynchronously; the tick
\* ends while the submission is still pending.
UpdateStatsAddAsync ==
  /\ hpc = "addStats"
  /\ called' = called \cup {"AddStats"}
  /\ tick' = "added"
  /\ hpc' = "nextHousekeeping"
  /\ UNCHANGED <<flagVars, normVars, unlocked, failing, ctorVars, info, lock, housekeepingInterval,
                 stop, storage, startVars, now, stats, nextHousekeeping, seen,
                 prevInterval, infoVars, spc>>

\* updateStats: err = c.storageDriver.AddStats(ref, stats)
UpdateStatsAdd ==
  /\ hpc = "addStats"
  /\ called' = called \cup {"AddStats"}
  /\ \/ /\ \E err \in Errors : TickDone("AddStats failed")
        /\ UNCHANGED storage
     \/ /\ failing.call # "AddStats"
        /\ storage' = AddStats(storage, stats)
        /\ TickDone("added")
  /\ UNCHANGED <<flagVars, normVars, ctorVars, info, lock, housekeepingInterval, stop,
                 startVars, now, nextHousekeeping, seen, prevInterval,
                 infoVars, spc>>

\* Variant: the adaptation runs whatever allow_dynamic_housekeeping says.
NextHousekeepingAlwaysDynamic ==
  /\ hpc = "nextHousekeeping"
  /\ \E recent \in RecentStats(RecentCount) :
       /\ housekeepingInterval' = AdaptedInterval(housekeepingInterval, recent)
       /\ seen' = Seen(recent)
       /\ called' = called \cup {"RecentStats"}
  /\ unlocked' = InfoAccess(Housekeeper, "read", "Name")
  /\ nextHousekeeping' = WakeTime(lastHousekeeping, housekeepingInterval')
  /\ prevInterval' = housekeepingInterval
  /\ hpc' = "schedule"
  /\ UNCHANGED <<flagVars, normVars, failing, ctorVars, info, lock, stop, storage,
                 startVars, now, stats, tick, infoVars, spc>>

\* nextHousekeeping := c.nextHousekeeping(lastHousekeeping)
NextHousekeeping ==
  /\ hpc = "nextHousekeeping"
  /\ IF allowDynamicHousekeeping
     THEN /\ \E recent \in RecentStats(RecentCount) :
               /\ housekeepingInterval' = AdaptedInterval(housekeepingInterval, recent)
               /\ seen' = Seen(recent)
               /\ called' = called \cup {"RecentStats"}
          /\ unlocked' = InfoAccess(Housekeeper, "read", "Name")
     ELSE /\ UNCHANGED <<housekeepingInterval, called, unlocked>>
          /\ seen' = "not queried"
  /\ nextHousekeeping' = WakeTime(lastHousekeeping, housekeepingInterval')
  /\ prevInterval' = housekeepingInterval
  /\ hpc' = "schedule"
  /\ UNCHANGED <<flagVars, normVars, failing, ctorVars, info, lock, stop, storage, startVars, now,
                 stats, tick, infoVars, spc>>

\* lastHousekeeping = nextHousekeeping: the origin of time moves to the wake
\* time, and the iteration is over.
Advance ==
  /\ now' = now - nextHousekeeping
  /\ nextHousekeeping' = 0
  /\ called' = {}
  /\ tick' = "none"
  /\ seen' = "none"
  /\ prevInterval' = 0
  /\ hpc' = "select"

\* if time.Now().Before(nextHousekeeping) { time.Sleep(...) }
Schedule ==
  /\ hpc = "schedule"
  /\ IF now < nextHousekeeping
     THEN /\ hpc' = "sleeping"
          /\ UNCHANGED <<now, nextHousekeeping, iterVars>>
     ELSE Advance
  /\ UNCHANGED <<flagVars, normVars, unlocked, failing, ctorVars, info, lock, housekeepingInterval, stop,
                 storage, startVars, stats, infoVars, spc>>

\* time.Sleep returns once the wake time is reached.
WakeUp ==
  /\ hpc = "sleeping"
  /\ now >= nextHousekeeping
  /\ Advance
  /\ UNCHANGED <<flagVars, normVars, unlocked, failing, ctorVars, info, lock, housekeepingInterval, stop,
                 storage, startVars, stats, infoVars, spc>>

\* Time passes while the loop runs.
Tick ==
  /\ hpc \notin {"notStarted", "begin", "exited"}
  /\ now < MaxLag
  /\ now' = now + 1
  /\ UNCHANGED <<flagVars, normVars, unlocked, failing, ctorVars, info, lock, housekeepingInterval, stop,
                 storage, startVars, hpc, stats, nextHousekeeping, iterVars,
                 infoVars, spc>>

Housekeeping ==
  \/ HousekeepingBegin
  \/ Select
  \/ GetStats
  \/ ContainerReference
  \/ UpdateStatsAdd
  \/ NextHousekeeping
  \/ Schedule
  \/ WakeUp

(***************************************************************************)
(* toContainerStats, GetStats and GetStatsCgroupOnly (helpers.go).         *)
(***************************************************************************)
\* Unsigned addition and subtraction of the counters' width.
AddU(a, b) == (a + b) % Word
SubU(a, b) == (a + Word - b) % Word

\* The loop of lines 56-60 from index i on: Total += PercpuUsage[i].
RECURSIVE SumPercpu(_, _, _)
SumPercpu(percpu, i, total) ==
  IF i > Len(percpu) THEN total
  ELSE SumPercpu(percpu, i + 1, AddU(total, percpu[i]))

\* ret.Cpu.Usage for a present CgroupStats (lines 51-60).
CpuUsageOf(cpu) ==
  [User |-> cpu.UsageInUsermode,
   System |-> cpu.UsageInKernelmode,
   PerCpu |-> [i \in 1..Len(cpu.PercpuUsage) |-> cpu.PercpuUsage[i]],
   Total |-> SumPercpu(cpu.PercpuUsage, 1, 0)]

\* v, ok := s.MemoryStats.Stats[key]
HasKey(m, key) == key \in DOMAIN m

\* if v, ok := Stats[key]; ok { both fields = v } (lines 62-69)
FaultOf(m, key) == IF HasKey(m, key) THEN m[key] ELSE 0

\* Variant: the working set approximated from the usage alone when
\* total_inactive_anon is absent.
WorkingSetOfApproximated(usage, m) ==
  IF HasKey(m, "total_inactive_anon")
  THEN IF HasKey(m, "total_active_file")
       THEN SubU(SubU(usage, m["total_inactive_anon"]), m["total_active_file"])
       ELSE SubU(usage, m["total_inactive_anon"])
  ELSE IF HasKey(m, "total_active_file")
       THEN SubU(usage, m["total_active_file"])
       ELSE 0

\* ret.Memory.WorkingSet (lines 70-75).
WorkingSetOf(usage, m) ==
  IF HasKey(m, "total_inactive_anon")
  THEN IF HasKey(m, "total_active_file")
       THEN SubU(SubU(usage, m["total_inactive_anon"]), m["total_active_file"])
       ELSE SubU(usage, m["total_inactive_anon"])
  ELSE 0

\* ret.Memory for a present CgroupStats (lines 61-75).
MemoryOf(mem) ==
  [Usage |-> mem.Usage,
   ContainerData |-> [Pgfault |-> FaultOf(mem.Stats, "pgfault"),
                      Pgmajfault |-> FaultOf(mem.Stats, "pgmajfault")],
   HierarchicalData |-> [Pgfault |-> FaultOf(mem.Stats, "pgfault"),
                         Pgmajfault |-> FaultOf(mem.Stats, "pgmajfault")],
   WorkingSet |-> WorkingSetOf(mem.Usage, mem.Stats)]

\* (info.NetworkStats)(*libcontainerStats.NetworkStats): a field-by-field copy.
NetworkOf(net) == [RxBytes |-> net.RxBytes, TxBytes |-> net.TxBytes]

\* Variant: return as soon as CgroupStats is found nil.
ToContainerStatsEarlyReturn(raw, t) ==
  IF raw.HasCgroupStats
  THEN [Timestamp |-> t,
        Cpu |-> [Usage |-> CpuUsageOf(raw.CgroupStats.CpuStats)],
        Memory |-> MemoryOf(raw.CgroupStats.MemoryStats),
        Network |-> IF raw.HasNetworkStats
                    THEN NetworkOf(raw.NetworkStats)
                    ELSE ZeroNetworkStats]
  ELSE [ZeroContainerStats EXCEPT !.Timestamp = t]

\* toContainerStats(libcontainerStats), with t the reading of time.Now().
ToContainerStats(raw, t) ==
  [Timestamp |-> t,
   Cpu |-> IF raw.HasCgroupStats
           THEN [Usage |-> CpuUsageOf(raw.CgroupStats.CpuStats)]
           ELSE ZeroContainerStats.Cpu,
   Memory |-> IF raw.HasCgroupStats
              THEN MemoryOf(raw.CgroupStats.MemoryStats)
              ELSE ZeroContainerStats.Memory,
   Network |-> IF raw.HasNetworkStats
               THEN NetworkOf(raw.NetworkStats)
               ELSE ZeroContainerStats.Network]

\* What a call of the two entry points returns: nil and the error, or the
\* normalized stats and nil.
StatsReturn(via, err, raw, t) ==
  IF err # NoError
  THEN [returned |-> TRUE, via |-> via, err |-> err,
        hasStats |-> FALSE, stats |-> ZeroContainerStats]
  ELSE [returned |-> TRUE, via |-> via, err |-> NoError,
        hasStats |-> TRUE, stats |-> ToContainerStats(raw, t)]

\* GetStats(config, state): libcontainer.GetStats reports an error or the
\* raw snapshot libcontainerStats.
LibcontainerGetStats ==
  /\ ~containerStats.returned
  /\ \E err \in Errors \cup {NoError}, t \in Stamps :
       containerStats' = StatsReturn("GetStats", err, libcontainerStats, t)
  /\ UNCHANGED <<flagVars, ctorVars, info, lock, housekeepingInterval, stop,
                 storage, startVars, loopVars, infoVars, spc, failing,
                 libcontainerStats, unlocked>>

\* GetStatsCgroupOnly(cgroup): cgroupfs.GetStats reports an error or the
\* cgroup section; the snapshot handed on has no network section.
GetStatsCgroupOnly ==
  /\ ~containerStats.returned
  /\ libcontainerStats.HasCgroupStats
  /\ \E err \in Errors \cup {NoError}, t \in Stamps :
       containerStats' =
         StatsReturn("GetStatsCgroupOnly", err,
                     [libcontainerStats EXCEPT !.HasNetworkStats = FALSE,
                                               !.NetworkStats = ZeroNetworkStats],
                     t)
  /\ UNCHANGED <<flagVars, ctorVars, info, lock, housekeepingInterval, stop,
                 storage, startVars, loopVars, infoVars, spc, failing,
                 libcontainerStats, unlocked>>

NextStats ==
  \/ LibcontainerGetStats
  \/ GetStatsCgroupOnly

SpecStats == InitStats /\ [][NextStats]_vars

(***************************************************************************)
(* The lifecycle and the housekeeping loop: construction, Start, Stop      *)
(* callers, the goroutine and the clock.                                   *)
(***************************************************************************)
NextLoop ==
  \/ NewContainerData
  \/ Start
  \/ \E s \in Stoppers : Stop(s)
  \/ \E s \in Stoppers : StopUnblock(s)
  \/ Housekeeping
  \/ Tick

SpecLoop == Init /\ [][NextLoop]_vars

(***************************************************************************)
(* The same with a collaborator that, from some point on, fails on every   *)
(* call: the handler's GetStats or the storage driver's AddStats.          *)
(***************************************************************************)
CollaboratorFails(call) ==
  /\ cont = "ok"
  /\ failing.call = "none"
  /\ failing' = [call |-> call, ticks |-> 0]
  /\ UNCHANGED <<flagVars, normVars, unlocked, ctorVars, info, lock, housekeepingInterval,
                 stop, storage, startVars, loopVars, infoVars, spc>>

NextFail ==
  \/ NextLoop
  \/ \E call \in FailingCalls : CollaboratorFails(call)

SpecFail == Init /\ [][NextFail]_vars

(***************************************************************************)
(* The whole manager: the housekeeping loop interleaved with a GetInfo     *)
(* caller and a Stop caller, for one flag configuration (adaptation        *)
(* disabled).                                                              *)
(***************************************************************************)
InitAll ==
  /\ HousekeepingInterval = 1
  /\ maxHousekeepingInterval = 1
  /\ allowDynamicHousekeeping = FALSE
  /\ InitManager
  /\ libcontainerStats = NoRawStats
  /\ containerStats = NotReturned

NextAll ==
  \/ NewContainerData
  \/ Start
  \/ Stop(1)
  \/ StopUnblock(1)
  \/ Housekeeping
  \/ Tick
  \/ GetInfo(1)

SpecAll == InitAll /\ [][NextAll]_vars

(***************************************************************************)
(* The whole manager with adaptation enabled (baseline 1, maximum 2): the  *)
(* loop interleaved with a GetInfo caller and a Stop caller.  The handler  *)
(* stamps every sample with the same clock reading.                        *)
(***************************************************************************)
InitDyn ==
  /\ HousekeepingInterval = 1
  /\ maxHousekeepingInterval = 2
  /\ allowDynamicHousekeeping = TRUE
  /\ InitManager
  /\ libcontainerStats = NoRawStats
  /\ containerStats = NotReturned

NextDyn ==
  \/ NewContainerData
  \/ Start
  \/ Stop(1)
  \/ StopUnblock(1)
  \/ Housekeeping /\ stats'.Timestamp \in {0, 1}
  \/ Tick
  \/ GetInfo(1)

SpecDyn == InitDyn /\ [][NextDyn]_vars

(***************************************************************************)
(* The read path alone: construction and concurrent GetInfo callers.       *)
(***************************************************************************)
NextInfo ==
  \/ NewContainerData
  \/ \E c \in Callers : GetInfo(c)

SpecInfo == Init /\ [][NextInfo]_vars

(***************************************************************************)
(* The same, with the scheduling the runtime gives the goroutine: every    *)
(* collaborator call of the loop returns, and time passes while it sleeps. *)
(***************************************************************************)
SpecLoopFair == SpecLoop /\ WF_vars(Housekeeping) /\ WF_vars(Tick)

(***************************************************************************)
(* Properties.                                                             *)
(***************************************************************************)
\* The loop has run nextHousekeeping in this iteration.
Computed == hpc \in {"schedule", "sleeping"}

Min(a, b) == IF a < b THEN a ELSE b

C2_StaysAtMaximum ==
  (/\ Computed
   /\ allowDynamicHousekeeping
   /\ seen = "equal"
   /\ prevInterval = maxHousekeepingInterval)
    => housekeepingInterval = maxHousekeepingInterval

\* C3: when nextHousekeeping sees two samples that differ with the interval
\* above the baseline, the interval becomes exactly the baseline and the
\* wake time is lastHousekeeping + baseline.
C3_InstantReset ==
  (/\ Computed
   /\ allowDynamicHousekeeping
   /\ seen = "changed"
   /\ prevInterval > HousekeepingInterval)
    => /\ housekeepingInterval = HousekeepingInterval
       /\ nextHousekeeping = lastHousekeeping + HousekeepingInterval

\* C3 witness: a reset from an interval that had been doubled twice.
C3_Witness ==
  /\ Computed
  /\ allowDynamicHousekeeping
  /\ seen = "changed"
  /\ prevInterval >= 4 * HousekeepingInterval
  /\ housekeepingInterval = HousekeepingInterval

\* C4: when nextHousekeeping sees two equal samples with the interval
\* strictly below the maximum, the new interval is min(2 * old, maximum)
\* and the wake time is lastHousekeeping + the new interval.
C4_DoubleClamped ==
  (/\ Computed
   /\ allowDynamicHousekeeping
   /\ seen = "equal"
   /\ prevInterval < maxHousekeepingInterval)
    => /\ housekeepingInterval = Min(2 * prevInterval, maxHousekeepingInterval)
       /\ nextHousekeeping = lastHousekeeping + housekeepingInterval

\* C4 witness: a doubling, computed when the clock had already moved on.
C4_Witness ==
  /\ Computed
  /\ allowDynamicHousekeeping
  /\ seen = "equal"
  /\ prevInterval < maxHousekeepingInterval
  /\ housekeepingInterval = 2 * prevInterval
  /\ now > 0

\* C5 (as claimed): no GetInfo returns a copy taken while the refresh of
\* another GetInfo is half applied, i.e. a copy whose Spec is the one that
\* refresh wrote and whose Subcontainers are not yet the ones it writes.
C5_NoTornCopy ==
  \A c \in Callers : ret[c].hasInfo => ~ret[c].torn

\* C6: once a stop notification is in the channel of a started manager the
\* loop eventually exits; and an exited loop stays exited: it makes no
\* further call and changes nothing.
C6_StopTerminates ==
  /\ (startCalls = 1 /\ stop > 0) ~> (hpc = "exited")
  /\ [][hpc = "exited" =>
          /\ hpc' = "exited"
          /\ UNCHANGED <<storage, housekeepingInterval, called, tick, seen>>]_vars

\* C6 witness: the loop has stored a sample, then consumed the stop
\* notification and exited.
C6_Witness ==
  /\ hpc = "exited"
  /\ storage # <<>>
  /\ stop = 0

\* C7: the stop channel holds at most one notification; a Stop caller
\* blocks only when the slot is full, a notification enters only an empty
\* slot, a blocked caller returns only after the slot was emptied, and only
\* the loop's select empties it.
C7_SingleSlotStop ==
  [][/\ stop' <= 1
     /\ stop' > stop => (stop = 0 /\ stop' = 1)
     /\ stop' < stop => (hpc = "select" /\ hpc' = "exited")
     /\ \A s \in Stoppers :
          /\ (spc[s] = "idle" /\ spc'[s] = "blocked") => (stop = 1 /\ stop' = 1)
          /\ (spc[s] = "blocked" /\ spc'[s] = "idle") => (stop = 0 /\ stop' = 1)]_vars

\* C7 witness: a second Stop caller is blocked behind a pending notification.
C7_Witness ==
  /\ stop = 1
  /\ \E s \in Stoppers : spc[s] = "blocked"

\* C8: GetInfo fetches the spec, then the sub-container list; a failed spec
\* fetch is returned with no info and no list fetch; a failed list fetch is
\* returned with no info; an info copy is returned only after both fetches
\* succeeded, and it carries the Name and Aliases seeded at construction.
C8_GetInfoErrors ==
  \A c \in Callers :
    LET k == calls[c]
        r == ret[c]
    IN /\ Len(k) <= 2
       /\ Len(k) >= 1 => k[1].method = "GetSpec"
       /\ Len(k) = 2 => (k[2].method = "ListContainers" /\ k[1].err = NoError)
       /\ r.hasInfo =>
            /\ gpc[c] = "idle"
            /\ Len(k) = 2
            /\ k[2].err = NoError
            /\ r.err = NoError
            /\ r.info.Name = handler.Name
            /\ r.info.Aliases = handler.Aliases
       /\ (gpc[c] = "idle" /\ Len(k) = 1) =>
            (k[1].err # NoError /\ r.err = k[1].err /\ ~r.hasInfo)
       /\ (gpc[c] = "idle" /\ Len(k) = 2 /\ k[2].err # NoError) =>
            (r.err = k[2].err /\ ~r.hasInfo)
       /\ (gpc[c] = "idle" /\ Len(k) = 2 /\ k[2].err = NoError) =>
            (r.err = NoError /\ r.hasInfo)

\* C8 witness: a GetInfo has returned the error of its sub-container fetch.
C8_Witness ==
  \E c \in Callers :
    /\ gpc[c] = "idle"
    /\ Len(calls[c]) = 2
    /\ calls[c][2].err \in Errors
    /\ ret[c].err = calls[c][2].err

\* C9: NewContainerData fails with no manager on a nil driver (before any
\* handler is resolved), on a failed handler resolution and on a failed
\* reference read, returning the collaborator's error as it is; on success
\* the manager has the baseline interval, an empty stop channel and the
\* Name and Aliases of the handler's reference.
C9_Construction ==
  newRet.called =>
    /\ newRet.driver = Nil =>
         (newRet.err = NilDriverError /\ newRet.calls = <<>> /\ cont = "nil")
    /\ (newRet.driver # Nil /\ newRet.resolveErr # NoError) =>
         (/\ newRet.err = newRet.resolveErr
          /\ newRet.calls = <<"NewContainerHandler">>
          /\ cont = "nil")
    /\ (newRet.driver # Nil /\ newRet.resolveErr = NoError /\ newRet.refErr # NoError) =>
         (newRet.err = newRet.refErr /\ cont = "nil")
    /\ (newRet.driver # Nil /\ newRet.resolveErr = NoError /\ newRet.refErr = NoError) =>
         (/\ newRet.err = NoError
          /\ cont = "ok"
          /\ housekeepingInterval = HousekeepingInterval
          /\ stop = 0
          /\ info.Name = newRet.ref.Name
          /\ info.Aliases = newRet.ref.Aliases)
    /\ cont = "nil" => (info = ZeroInfo /\ housekeepingInterval = 0)

\* C9 witness: a construction refused for a nil driver.
C9_Witness ==
  /\ newRet.called
  /\ newRet.driver = Nil
  /\ newRet.err = NilDriverError
  /\ cont = "nil"

\* C10: before Start is called no housekeeping goroutine exists, no
\* collaborator is called by one, nothing is stored and the interval is the
\* one set at construction; after the Start call exactly one goroutine
\* exists.
C10_NoActivityBeforeStart ==
  /\ startCalls = 0 =>
       /\ goroutines = 0
       /\ hpc = "notStarted"
       /\ called = {}
       /\ tick = "none"
       /\ storage = <<>>
       /\ cont = "ok" => housekeepingInterval = HousekeepingInterval
  /\ startCalls = 1 => (goroutines = 1 /\ hpc # "notStarted")
  /\ startCalls \in {0, 1}

\* C10 witness: the started manager's loop has stored a sample.
C10_Witness ==
  /\ startCalls = 1
  /\ goroutines = 1
  /\ "AddStats" \in called
  /\ storage # <<>>

\* The sum of the entries of a sequence of naturals, in unbounded arithmetic.
RECURSIVE ArithmeticSum(_)
ArithmeticSum(q) == IF q = <<>> THEN 0 ELSE Head(q) + ArithmeticSum(Tail(q))

\* A call of GetStats / GetStatsCgroupOnly has returned normalized stats of
\* a snapshot with a cgroup section.
NormalizedCgroup == containerStats.hasStats /\ libcontainerStats.HasCgroupStats

\* C11: the normalized PerCpu is the raw per-core list (same length, same
\* values, same order) and the normalized Total is the arithmetic sum of
\* its entries, for every combination of per-core values of the counters'
\* width.
C11_TotalIsArithmeticSum ==
  NormalizedCgroup =>
    LET usage == containerStats.stats.Cpu.Usage
    IN  /\ usage.PerCpu = libcontainerStats.CgroupStats.CpuStats.PercpuUsage
        /\ usage.Total = ArithmeticSum(usage.PerCpu)

\* C12: without total_inactive_anon the WorkingSet is zero, also when
\* total_active_file is present; with it, WorkingSet is Usage minus
\* total_inactive_anon, minus total_active_file too when that is present
\* (subtraction of the counters' unsigned type).
C12_WorkingSetConditional ==
  NormalizedCgroup =>
    LET m == libcontainerStats.CgroupStats.MemoryStats.Stats
        u == libcontainerStats.CgroupStats.MemoryStats.Usage
        ws == containerStats.stats.Memory.WorkingSet
        inactive == IF "total_inactive_anon" \in DOMAIN m
                    THEN m["total_inactive_anon"] ELSE 0
        active == IF "total_active_file" \in DOMAIN m
                  THEN m["total_active_file"] ELSE 0
    IN  /\ ws \in Uint64
        /\ "total_inactive_anon" \notin DOMAIN m => ws = 0
        /\ "total_inactive_anon" \in DOMAIN m =>
             (ws + inactive + active) % Word = u

\* A snapshot with only total_active_file was normalized to WorkingSet 0.
C12_Witness ==
  /\ NormalizedCgroup
  /\ DOMAIN libcontainerStats.CgroupStats.MemoryStats.Stats = {"total_active_file"}
  /\ libcontainerStats.CgroupStats.MemoryStats.Stats["total_active_file"] > 0
  /\ libcontainerStats.CgroupStats.MemoryStats.Usage
       > libcontainerStats.CgroupStats.MemoryStats.Stats["total_active_file"]
  /\ containerStats.stats.Memory.WorkingSet = 0

\* C13: normalization never fails on a missing section: whenever the raw
\* fetch succeeds stats are returned; an absent cgroup section (CPU and
\* memory) or network section leaves its part of the result zero-valued, an
\* empty CPU or memory section gives zero values, and the sections that are
\* present are converted; with everything absent only Timestamp is set.
C13_MissingSections ==
  containerStats.returned =>
    LET raw == libcontainerStats
        st == containerStats.stats
    IN  /\ containerStats.hasStats <=> containerStats.err = NoError
        /\ containerStats.hasStats =>
             /\ st.Timestamp \in Stamps
             /\ ~raw.HasCgroupStats =>
                  st.Cpu = [Usage |-> ZeroCpuUsage] /\ st.Memory = ZeroMemory
             /\ (raw.HasCgroupStats /\ raw.CgroupStats.CpuStats = ZeroCpuStats) =>
                  st.Cpu = [Usage |-> ZeroCpuUsage]
             /\ (raw.HasCgroupStats /\ raw.CgroupStats.MemoryStats = ZeroMemoryStats) =>
                  st.Memory = ZeroMemory
             /\ raw.HasCgroupStats =>
                  /\ st.Cpu.Usage.User = raw.CgroupStats.CpuStats.UsageInUsermode
                  /\ st.Cpu.Usage.System = raw.CgroupStats.CpuStats.UsageInKernelmode
                  /\ Len(st.Cpu.Usage.PerCpu) = Len(raw.CgroupStats.CpuStats.PercpuUsage)
                  /\ st.Memory.Usage = raw.CgroupStats.MemoryStats.Usage
             /\ (raw.HasNetworkStats /\ containerStats.via = "GetStats") =>
                  st.Network = raw.NetworkStats
             /\ (~raw.HasNetworkStats \/ containerStats.via = "GetStatsCgroupOnly") =>
                  st.Network = ZeroNetworkStats
             /\ (~raw.HasCgroupStats /\ ~raw.HasNetworkStats) =>
                  st = [ZeroContainerStats EXCEPT !.Timestamp = st.Timestamp]

\* A snapshot without cgroup section but with network counters was
\* normalized: the counters are passed on, CPU and memory are zero.
C13_Witness ==
  /\ containerStats.hasStats
  /\ ~libcontainerStats.HasCgroupStats
  /\ libcontainerStats.HasNetworkStats
  /\ containerStats.stats.Network = libcontainerStats.NetworkStats
  /\ containerStats.stats.Network # ZeroNetworkStats
  /\ containerStats.stats.Memory = ZeroMemory
  /\ containerStats.stats.Timestamp > 0

\* C14: with dynamic adaptation disabled a computation of the next wake
\* time returns lastHousekeeping + the baseline interval, leaves the
\* interval as it was and does not ask the storage driver for recent
\* samples, whatever samples it holds.
C14_StaticInterval ==
  /\ (Computed /\ ~allowDynamicHousekeeping) =>
       /\ housekeepingInterval = prevInterval
       /\ housekeepingInterval = HousekeepingInterval
       /\ nextHousekeeping = lastHousekeeping + HousekeepingInterval
       /\ seen = "not queried"
  /\ ~allowDynamicHousekeeping => "RecentStats" \notin called

\* Adaptation is disabled, the driver holds two equal samples and the
\* maximum is above the baseline: the wake time was computed all the same.
C14_Witness ==
  /\ Computed
  /\ ~allowDynamicHousekeeping
  /\ HousekeepingInterval < maxHousekeepingInterval
  /\ Len(storage) = 2
  /\ StatsEq(storage[1], storage[2])
  /\ nextHousekeeping = HousekeepingInterval

\* C15: with dynamic adaptation enabled, a RecentStats lookup that fails or
\* returns fewer than two samples leaves the interval as it was; the wake
\* time is lastHousekeeping + that interval, the loop goes on (it is at its
\* scheduling step) and the tick's outcome is what it was.
C15_LookupFailureIgnored ==
  (Computed /\ allowDynamicHousekeeping /\ seen \in {"error", "short"}) =>
    /\ housekeepingInterval = prevInterval
    /\ nextHousekeeping = lastHousekeeping + prevInterval
    /\ "RecentStats" \in called
    /\ hpc \in {"schedule", "sleeping"}
    /\ tick \in {"added", "no stats", "GetStats failed",
                 "ContainerReference failed", "AddStats failed"}

\* The lookup failed while the interval was above the baseline, and the
\* interval stayed there.
C15_Witness ==
  /\ Computed
  /\ allowDynamicHousekeeping
  /\ seen = "error"
  /\ prevInterval > HousekeepingInterval
  /\ housekeepingInterval = prevInterval
  /\ nextHousekeeping = prevInterval

\* C16: once a collaborator fails on every call (GetStats or AddStats), the
\* loop keeps running and every computation that follows a failed tick
\* leaves the interval at the baseline.
C16_FailingRunsAtBaseline ==
  (failing.call # "none" /\ failing.ticks = MaxFailedTicks /\ Computed) =>
    housekeepingInterval = HousekeepingInterval

\* C17 as stated: the interval of a constructed manager is always
\* baseline * 2^k for some k >= 0.
C17_PowerOfTwoMultiple ==
  cont = "ok" =>
    \E k \in 0..MaxMaxInterval : housekeepingInterval = HousekeepingInterval * 2^k

\* C17, amended: the interval of a constructed manager is always
\* min(baseline * 2^k, maximum) for some k >= 0, and a computation that
\* detects a change leaves it at the baseline (k = 0).
C17_PowerOfTwoOrMaximum ==
  /\ cont = "ok" =>
       \E k \in 0..MaxMaxInterval :
         housekeepingInterval = Min(HousekeepingInterval * 2^k, maxHousekeepingInterval)
  /\ (Computed /\ seen = "changed") => housekeepingInterval = HousekeepingInterval

\* The interval was raised to a maximum that is no baseline * 2^k.
C17_Witness ==
  /\ Computed
  /\ seen = "equal"
  /\ housekeepingInterval = maxHousekeepingInterval
  /\ \A k \in 0..MaxMaxInterval : maxHousekeepingInterval # HousekeepingInterval * 2^k

\* The positions of the loop inside a housekeeping tick.
InTick == {"getStats", "containerReference", "addStats"}

\* C18: the loop looks at the stop channel only at the top of an iteration:
\* a tick in flight goes on from step to step and ends at the computation
\* of the wake time whether or not a notification waits (its AddStats
\* included), the goroutine exits only at the select and only on a
\* notification, and a select that finds a notification starts no tick.
C18_CooperativeStop ==
  /\ [][/\ (hpc \in InTick /\ hpc' # hpc) =>
             hpc' \in InTick \cup {"nextHousekeeping"}
        /\ (hpc' = "exited" /\ hpc # "exited") => (hpc = "select" /\ stop > 0)
        /\ (hpc = "select" /\ stop > 0 /\ hpc' # hpc) =>
             (hpc' = "exited" /\ called' = {} /\ storage' = storage)
        /\ stop' > stop => UNCHANGED <<hpc, stats, storage, called, tick>>]_vars
  /\ (hpc \in InTick /\ stop > 0) ~> (hpc = "nextHousekeeping")
  /\ (hpc = "addStats" /\ stop > 0) ~> (hpc = "nextHousekeeping" /\ "AddStats" \in called)

\* Stop was called while the tick was about to submit its sample.
C18_Witness ==
  /\ hpc = "addStats"
  /\ stop = 1
  /\ "ContainerReference" \in called

\* The outcomes of a tick that did not reach AddStats, and all failures.
SkippedOutcomes == {"GetStats failed", "no stats", "ContainerReference failed"}
FailedOutcomes == SkippedOutcomes \cup {"AddStats failed"}

\* C19: a tick that fails is not fatal.  When GetStats fails or returns no
\* stats, or the reference lookup fails, AddStats is not called in that
\* tick; a sample is stored only by a successful AddStats, one at a time;
\* a failed AddStats changes nothing else; and after every failed tick the
\* loop computes the next wake time and arrives at the top of the next
\* iteration.
C19_FailedTickNotFatal ==
  /\ [](tick \in SkippedOutcomes =>
          /\ "AddStats" \notin called
          /\ hpc \in {"nextHousekeeping", "schedule", "sleeping"})
  /\ [](tick = "AddStats failed" =>
          hpc \in {"nextHousekeeping", "schedule", "sleeping"})
  /\ [][/\ storage' # storage =>
             /\ hpc = "addStats"
             /\ tick' = "added"
             /\ storage' = AddStats(storage, stats)
        /\ (tick' \in FailedOutcomes /\ tick = "none") =>
             /\ hpc' = "nextHousekeeping"
             /\ UNCHANGED <<storage, housekeepingInterval, info, stop, lock>>]_vars
  /\ (tick \in FailedOutcomes) ~> Computed
  /\ (tick \in FailedOutcomes) ~> (hpc = "select" /\ tick = "none")

\* After a failed GetStats the loop sleeps until a wake time it computed,
\* with the samples of earlier ticks still stored.
C19_Witness ==
  /\ tick = "GetStats failed"
  /\ hpc = "sleeping"
  /\ "AddStats" \notin called
  /\ storage # <<>>

\* C20: a manager started once has one housekeeping goroutine, hence at
\* most one tick in flight; when a tick's GetStats begins the previous
\* tick has handed its sample to the driver or dropped it (the loop holds
\* no sample and has made no call in this iteration); the driver receives
\* exactly the sample the current tick fetched, as its most recent one;
\* and no step of a GetInfo or Stop caller touches the loop's tick.
C20_OneTickInOrder ==
  /\ [](goroutines <= 1)
  /\ [](hpc \in {"select", "getStats"} =>
          (stats = NoStats /\ called = {} /\ tick = "none"))
  /\ [][/\ storage' # storage =>
             /\ hpc = "addStats"
             /\ stats # NoStats
             /\ storage' = AddStats(storage, stats)
             /\ stats' = NoStats
        /\ ("GetStats" \in called' /\ "GetStats" \notin called) =>
             (hpc = "getStats" /\ stats = NoStats /\ called = {})
        /\ (gpc' # gpc \/ spc' # spc \/ stop' > stop) =>
             UNCHANGED <<hpc, stats, storage, called, tick, goroutines>>]_vars

\* A second sample is about to be submitted while a GetInfo caller is in
\* the middle of its refresh and a stop notification waits.
C20_Witness ==
  /\ hpc = "addStats"
  /\ Len(storage) >= 1
  /\ gpc[1] = "subWrite"
  /\ stop = 1
  /\ goroutines = 1

\* C21: each wake time is the previous due time (lastHousekeeping) plus the
\* current interval; the loop sleeps only while the clock is before the
\* wake time, and goes on to the next iteration only once the clock has
\* reached it; and when the next iteration begins, the clock is at most one
\* interval past that iteration's due time.
C21_LagWithinOneInterval ==
  /\ [](Computed => nextHousekeeping = lastHousekeeping + housekeepingInterval)
  /\ [][/\ (hpc = "schedule" /\ hpc' = "sleeping") => now < nextHousekeeping
        /\ (Computed /\ hpc' = "select") =>
             /\ now >= nextHousekeeping
             /\ now' = now - nextHousekeeping
             /\ now' <= housekeepingInterval]_vars

\* C22: every read and every write of c.info, by the housekeeping goroutine
\* and by GetInfo callers, is made while the accessor holds c.lock.
C22_InfoAccessUnderLock == unlocked = {}

\* C23: the housekeeping interval of a constructed manager changes only in
\* the loop's nextHousekeeping step; a step of Start, of a Stop caller, of a
\* GetInfo caller or of a housekeeping tick leaves it as it is; no step of
\* the loop changes info, and Spec and Subcontainers change only in the
\* writes of a GetInfo caller.
C23_IntervalOwnedByLoop ==
  [][/\ (cont = "ok" /\ housekeepingInterval' # housekeepingInterval) =>
          (hpc = "nextHousekeeping" /\ hpc' = "schedule")
     /\ (startCalls' # startCalls \/ stop' # stop \/ spc' # spc \/ gpc' # gpc
           \/ hpc \in InTick) =>
          (cont = "ok" => housekeepingInterval' = housekeepingInterval)
     /\ (hpc' # hpc \/ now' # now \/ storage' # storage \/ called' # called) =>
          info' = info
     /\ (cont = "ok" /\ info' # info) =>
          /\ info'.Name = info.Name /\ info'.Aliases = info.Aliases
          /\ \E c \in Callers :
               \/ gpc[c] = "specWrite" /\ gpc'[c] = "listContainers"
               \/ gpc[c] = "subWrite" /\ gpc'[c] = "copyLock"]_vars

\* The loop has raised the interval while a GetInfo caller has refreshed
\* the spec and a stop notification waits.
C23_Witness ==
  /\ cont = "ok"
  /\ startCalls = 1
  /\ housekeepingInterval > HousekeepingInterval
  /\ info.Spec # NilSpec
  /\ stop = 1
  /\ tick = "added"

\* C24: whenever stats are normalized from a snapshot with a cgroup section,
\* the WorkingSet is at most the memory Usage, also when the subtracted
\* counters exceed the Usage.
C24_WorkingSetWithinUsage ==
  NormalizedCgroup =>
    containerStats.stats.Memory.WorkingSet <= containerStats.stats.Memory.Usage

\* C25: a Stop caller blocks only on a full slot, whatever the state of the
\* loop.  A notification placed before the loop's first stop check stays in
\* the channel until that check, the loop then exits at the check without a
\* collaborator call or a stored sample, and (under fair scheduling) a
\* started loop does reach that exit; a notification placed after the loop
\* has exited is accepted at once and stays in the channel for ever.
C25_StopOnEmptySlot ==
  /\ [][/\ \A s \in Stoppers :
             (spc[s] = "idle" /\ spc'[s] = "blocked") => stop = StopCapacity
        /\ (hpc \in {"notStarted", "begin"} /\ stop = 1) =>
             /\ stop' = 1
             /\ hpc' \in {"notStarted", "begin", "select"}
             /\ called' = {}
             /\ storage' = <<>>
        /\ (hpc = "select" /\ stop = 1 /\ hpc' # hpc) =>
             (hpc' = "exited" /\ called' = {} /\ storage' = storage)
        /\ (hpc = "exited" /\ stop = 0 /\ stop' # stop) =>
             (stop' = 1 /\ \A s \in Stoppers : spc'[s] = "blocked" => spc[s] = "blocked")
        /\ (hpc = "exited" /\ stop = 1) => (hpc' = "exited" /\ stop' = 1)]_vars
  /\ (startCalls = 1 /\ hpc = "begin" /\ stop = 1)
       ~> (hpc = "exited" /\ stop = 0 /\ storage = <<>>)

\* The loop has exited without having stored a sample, and a Stop issued
\* after that has returned: its notification sits in the channel.
C25_Witness ==
  /\ hpc = "exited"
  /\ stop = 1
  /\ storage = <<>>
  /\ startCalls = 1
  /\ \A s \in Stoppers : spc[s] = "idle"

\* C26: a GetInfo whose spec fetch fails returns without changing info; the
\* write of a fetched spec replaces Spec by that spec and leaves
\* Subcontainers; a GetInfo whose sub-container fetch fails returns without
\* changing info any further, so Spec stays replaced; and no step of GetInfo
\* changes Name or Aliases.
C26_FailingGetInfoEffects ==
  /\ [](\A c \in Callers :
          gpc[c] = "listContainers" => (writer.Spec # 0 /\ info.Spec \in SpecValues))
  /\ [][\A c \in Callers :
          /\ (gpc[c] = "idle" /\ calls'[c] # calls[c] /\ calls'[c][1].err # NoError) =>
               /\ info' = info
               /\ gpc'[c] = "idle"
               /\ ret'[c].err = calls'[c][1].err
               /\ ~ret'[c].hasInfo
          /\ (gpc[c] = "specWrite" /\ gpc'[c] = "listContainers") =>
               /\ fetched[c] \in SpecValues
               /\ info'.Spec = fetched[c]
               /\ info'.Subcontainers = info.Subcontainers
               /\ writer'.Spec = c
          /\ (gpc[c] = "listContainers" /\ gpc'[c] = "idle") =>
               /\ info' = info
               /\ ret'[c].err \in Errors
               /\ ~ret'[c].hasInfo
          /\ gpc'[c] # gpc[c] =>
               (info'.Name = info.Name /\ info'.Aliases = info.Aliases)]_vars

\* A GetInfo has failed on its sub-container fetch: the Spec it wrote is in
\* place, Subcontainers is still nil.
C26_Witness ==
  \E c \in Callers :
    /\ gpc[c] = "idle"
    /\ Len(calls[c]) = 2
    /\ calls[c][2].err \in Errors
    /\ writer.Spec = c
    /\ info.Spec \in SpecValues
    /\ info.Subcontainers = NilSpec

====
